---- MODULE Spec2Model ----
(***************************************************************************)
(* Model of create_cloth_list.py: the grid page composer                   *)
(* (combine_images_to_page), the pagination driver                         *)
(* (create_pdf_from_images) and the command-line guard (main).             *)
(*                                                                         *)
(* Lengths in points are kept in hundredths of a point so that 595.28 and  *)
(* 841.89 are integers.  Python floats appear in two places: the page size *)
(* (lines 61-65) and the fitting scale (lines 101-106).  Both are modelled *)
(* with exact rationals; the one place where IEEE-754 rounding changes an  *)
(* int() result, int(img_width * scale), is computed by IntOfProduct with  *)
(* the rounding of the double quotient and product done in integers.       *)
(***************************************************************************)
EXTENDS Integers, Sequences, FiniteSets

\* ------------------------------------------------------------------ bounds
MaxImages == 5
NegGrid == 1
MaxGrid == 2
MaxRows == 4
MaxCols == 3
MaxSlice == 13
MaxSide == 6
MaxCell == 4

\* ------------------------------------------------------- program constants
\* A4_WIDTH_PT = 595.28 and A4_HEIGHT_PT = 841.89, in hundredths of a point.
A4_WIDTH_PT == 59528
A4_HEIGHT_PT == 84189
MARGIN_PT == 30
DPI == 300
PT_PER_INCH == 72
\* default arguments of combine_images_to_page
padding == 5
font_size == 10

\* --------------------------------------------------- Python integer maths
\* a // b for b > 0 (floor division)
FloorDivPos(a, b) ==
    IF a >= 0 THEN a \div b ELSE -(((-a) + b - 1) \div b)

\* Python's a // b, b # 0: rounds toward minus infinity
PyFloorDiv(a, b) ==
    IF b > 0 THEN FloorDivPos(a, b) ELSE FloorDivPos(-a, -b)

\* Python's a % b, b # 0: takes the sign of b
PyMod(a, b) == a - b * PyFloorDiv(a, b)

\* int(x * SCALE_FACTOR) with SCALE_FACTOR = DPI / PT_PER_INCH, for x >= 0
ScaleToPx(x) == (x * DPI) \div PT_PER_INCH

\* ------------------------------------------------------ geometry (60-69)
\* int(A4_WIDTH_PT - 2 * MARGIN_PT): the first truncation
page_width_pt == (A4_WIDTH_PT - 2 * MARGIN_PT * 100) \div 100
page_height_pt == (A4_HEIGHT_PT - 2 * MARGIN_PT * 100) \div 100

\* int(page_width_pt * SCALE_FACTOR): the second truncation
page_width_px == ScaleToPx(page_width_pt)
page_height_px == ScaleToPx(page_height_pt)

\* page_width_px // cols and page_height_px // rows; a divisor of zero raises
img_max_width(cols) == PyFloorDiv(page_width_px, cols)
img_max_height(rows) == PyFloorDiv(page_height_px, rows)

padding_scale == ScaleToPx(padding)
font_size_px == ScaleToPx(font_size)
bg_padding == ScaleToPx(2)

\* ------------------------------------------------------- fitting (101-109)
\* Rationals are pairs <<numerator, denominator>> with denominator > 0.
RatLeq(p, q) == p[1] * q[2] <= q[1] * p[2]

RatMin(p, q) == IF RatLeq(p, q) THEN p ELSE q

\* (mutant) the 1.0 clamp is dropped: small images are enlarged
FitScaleNoClamp(img_width, img_height, max_width, max_height) ==
    RatMin(<<max_width, img_width>>, <<max_height, img_height>>)

\* scale = min(scale_w, scale_h, 1.0)
FitScale(img_width, img_height, max_width, max_height) ==
    RatMin(RatMin(<<max_width, img_width>>, <<max_height, img_height>>),
           <<1, 1>>)

\* ---- IEEE-754 double rounding of x * (n / d), in integer arithmetic ----
\* smallest k >= 0 with n * 2^k >= d
RECURSIVE MinShift(_, _)
MinShift(n, d) == IF n >= d THEN 0 ELSE 1 + MinShift(2 * n, d)

\* largest j >= 0 with d * 2^j <= n, for n >= d
RECURSIVE MaxShift(_, _)
MaxShift(n, d) == IF 2 * d > n THEN 0 ELSE 1 + MaxShift(n, 2 * d)

\* floor(log2(n / d))
FloorLog2(n, d) == IF n >= d THEN MaxShift(n, d) ELSE -MinShift(n, d)

\* smallest e >= 0 with 2^e >= m
RECURSIVE CeilLog2(_)
CeilLog2(m) == IF m <= 1 THEN 0 ELSE 1 + CeilLog2((m + 1) \div 2)

RECURSIVE Pow2(_)
Pow2(e) == IF e <= 0 THEN 1 ELSE 2 * Pow2(e - 1)

\* t steps of binary long division by d: <<remainder, last quotient bit>>
RECURSIVE LongDiv(_, _, _, _)
LongDiv(r, bit, d, t) ==
    IF t = 0 THEN <<r, bit>>
    ELSE IF 2 * r >= d THEN LongDiv(2 * r - d, 1, d, t - 1)
    ELSE LongDiv(2 * r, 0, d, t - 1)

\* For integers x, n, d >= 1 with x*n/d an integer m >= 1: whether the double
\* x * (n / d) is below m.  The quotient n/d is rounded to 53 bits (to
\* nearest, ties to even); if it was rounded down, the product m - g is
\* rounded back to m only when g is at most half the spacing of the doubles
\* just below m.
RoundsBelow(x, n, d) ==
    LET m == (x * n) \div d
        f == FloorLog2(n, d)
        e == CeilLog2(m)
        rb == LongDiv(n % d, (n \div d) % 2, d, 52 - f)
        r == rb[1]
        roundedUp == 2 * r > d \/ (2 * r = d /\ rb[2] = 1)
    IN  /\ r # 0
        /\ ~roundedUp
        /\ 4 * x * r > d * Pow2(e - f)

\* int(x * scale) for an integer x >= 1 and scale the double nearest to n/d:
\* truncation toward zero of the double product.  A product whose exact
\* value is not an integer is further from one than the rounding error;
\* one whose exact value is an integer m may come out just inside it
\* (22 * (15 / 22) = 14.999...), and int() then yields one less in magnitude.
IntOfProduct(x, scale) ==
    LET n == scale[1]
        d == scale[2]
        a == IF n < 0 THEN -n ELSE n
        m == (x * a) \div d
        mag == IF x * a = m * d /\ m >= 1 /\ RoundsBelow(x, a, d)
               THEN m - 1 ELSE m
    IN  IF n < 0 THEN -mag ELSE mag

\* <<new_width, new_height>> of lines 101-106
Fit(img_width, img_height, max_width, max_height) ==
    LET scale == FitScale(img_width, img_height, max_width, max_height)
    IN  <<IntOfProduct(img_width, scale), IntOfProduct(img_height, scale)>>

\* line 108: the image is resampled only when the size changes
NeedsResize(img_width, img_height, new_width, new_height) ==
    new_width # img_width \/ new_height # img_height

\* line 109: Image.resize rejects a target side below one pixel
ResizeRaises(img_width, img_height, new_width, new_height) ==
    /\ NeedsResize(img_width, img_height, new_width, new_height)
    /\ (new_width < 1 \/ new_height < 1)

\* ------------------------------------------------------------ font (75-94)
font_candidates ==
    <<"Helvetica.ttf", "Arial.ttf", "arial.ttf", "TImes New Roman.ttf",
      "DejaVuSans.ttf">>

\* The first candidate that loads from the installed faces, or "" (None).
ResolveFont(installed) ==
    LET hits == {k \in 1..Len(font_candidates) : font_candidates[k] \in installed}
    IN  IF hits = {} THEN ""
        ELSE font_candidates[CHOOSE k \in hits : \A m \in hits : k <= m]

\* -------------------------------------------------- page composer (96-148)
\* (mutant) the label restarts on every page
LabelNumberPerPage(start_index, i) == i + 1

\* number = start_index + i + 1   (i is the 0-based index in the slice)
LabelNumber(start_index, i) == start_index + i + 1

\* (mutant) the row is taken by dividing by rows
CellRowByRows(i, rows, cols) == PyFloorDiv(PyMod(i, rows * cols), rows)

\* idx_in_page = i % (rows * cols); row = idx_in_page // cols
CellRow(i, rows, cols) == PyFloorDiv(PyMod(i, rows * cols), cols)

\* col = idx_in_page % cols
CellCol(i, rows, cols) == PyMod(PyMod(i, rows * cols), cols)

\* What the loop body draws for the image at 0-based index i of the slice,
\* given its fitted size: the pasted box and the label stamped on it.
Placement(img, i, rows, cols, start_index, new_size) ==
    LET row == CellRow(i, rows, cols)
        col == CellCol(i, rows, cols)
        x_start == col * img_max_width(cols)
        y_start == row * img_max_height(rows)
        x_center == x_start + PyFloorDiv(img_max_width(cols) - new_size[1], 2)
        y_center == y_start + PyFloorDiv(img_max_height(rows) - new_size[2], 2)
    IN  [path |-> img.path, i |-> i, row |-> row, col |-> col,
         x_start |-> x_start, y_start |-> y_start,
         x |-> x_center, y |-> y_center,
         w |-> new_size[1], h |-> new_size[2],
         number |-> LabelNumber(start_index, i),
         text_x |-> x_center + padding_scale,
         text_y |-> y_center + padding_scale]

\* combine_images_to_page: the canvas drawn, or the exception raised.  The
\* first image that cannot be opened or resized raises and the canvas is
\* lost; otherwise every image of the slice is pasted and labelled, in order.
combine_images_to_page(image_paths, rows, cols, start_index, fonts) ==
    LET n == Len(image_paths)
        new_size(j) == Fit(image_paths[j].w, image_paths[j].h,
                           img_max_width(cols), img_max_height(rows))
        openFails(j) == ~image_paths[j].ok
        resizeFails(j) ==
            ResizeRaises(image_paths[j].w, image_paths[j].h,
                         new_size(j)[1], new_size(j)[2])
        bad == {j \in 1..n : openFails(j) \/ resizeFails(j)}
        first == CHOOSE j \in bad : \A m \in bad : j <= m
    IN  IF cols = 0 \/ rows = 0
        THEN [error |-> "ZeroDivisionError", at |-> 0, canvas |-> <<>>]
        ELSE IF ResolveFont(fonts) = ""
        THEN [error |-> "ValueError: No font found.", at |-> 0,
              canvas |-> <<>>]
        ELSE IF bad # {}
        THEN [error |-> IF openFails(first) THEN "UnidentifiedImageError"
                        ELSE "ValueError: resize",
              at |-> first - 1, canvas |-> <<>>]
        ELSE [error |-> "none", at |-> 0,
              width |-> page_width_px, height |-> page_height_px,
              canvas |-> [j \in 1..n |->
                  Placement(image_paths[j], j - 1, rows, cols, start_index,
                            new_size(j))]]

\* ------------------------------------------------------------------ state
VARIABLES
    entry,        \* "main", "core" (create_pdf_from_images), "page", "fit"
    pc,           \* position of the running call
    rows,         \* --rows / rows argument
    cols,         \* --cols / cols argument
    image_list,   \* the ordered images: [path, w, h, ok]
    installed,    \* font files the environment can load
    start_index,  \* start_index argument of a direct page composition
    i,            \* loop variable of create_pdf_from_images (line 191)
    pdf,          \* pages added to the FPDF object, in order
    temp_dir,     \* whether temp_page_images exists
    temp_files,   \* page numbers N of the page_N.png files on disk
    output,       \* the output document: whether written, and its pages
    reported,     \* whether line 216 printed the success message
    error,        \* the exception that ended the call, "none" otherwise
    page,         \* result of a direct combine_images_to_page call
    fit           \* inputs and result of one Image Fitter step

vars ==
    <<entry, pc, rows, cols, image_list, installed, start_index, i, pdf,
      temp_dir, temp_files, output, reported, error, page, fit>>

\* ----------------------------------------------------------------- inputs
\* Kinds of PNG file: one that fits every cell of the grids tried, one that
\* must be shrunk, and one that does not decode.
SmallImage == [w |-> 300, h |-> 200, ok |-> TRUE]
BigImage == [w |-> 4000, h |-> 3000, ok |-> TRUE]
CorruptImage == [w |-> 1, h |-> 1, ok |-> FALSE]
ImageKinds == {SmallImage, BigImage, CorruptImage}

\* Image lists of length n whose j-th path is j (find_png_files sorts them).
ImageLists(n) ==
    {[j \in 1..n |-> [path |-> j, w |-> k[j].w, h |-> k[j].h, ok |-> k[j].ok]] :
        k \in [1..n -> ImageKinds]}

\* Environments: no candidate face installed, or two of them.
FontSets == {{}, {"arial.ttf", "DejaVuSans.ttf"}}

NoDocument == [written |-> FALSE, pages |-> <<>>]
NoPage == [error |-> "not called", at |-> 0, canvas |-> <<>>]
NoFit ==
    [done |-> FALSE, img_width |-> 1, img_height |-> 1, max_width |-> 1,
     max_height |-> 1, new_width |-> 0, new_height |-> 0, resized |-> FALSE]

\* ------------------------------------------------- main (lines 225-279)
InitRun ==
    /\ entry \in {"main", "core"}
    /\ pc = entry
    /\ rows \in (-NegGrid)..MaxGrid
    /\ cols \in (-NegGrid)..MaxGrid
    /\ image_list \in UNION {ImageLists(n) : n \in 0..MaxImages}
    /\ installed \in FontSets
    /\ start_index = 0
    /\ i = 0
    /\ pdf = <<>>
    /\ temp_dir = FALSE
    /\ temp_files = {}
    /\ output = NoDocument
    /\ reported = FALSE
    /\ error = "none"
    /\ page = NoPage
    /\ fit = NoFit

\* lines 264-266: the grid guard
MainRejectsGrid ==
    /\ pc = "main"
    /\ (rows < 1 \/ cols < 1)
    /\ pc' = "rejected"
    /\ UNCHANGED <<entry, rows, cols, image_list, installed, start_index, i,
                   pdf, temp_dir, temp_files, output, reported, error, page,
                   fit>>

\* lines 271-273: nothing to do for an empty directory
MainNoFiles ==
    /\ pc = "main"
    /\ ~(rows < 1 \/ cols < 1)
    /\ image_list = <<>>
    /\ pc' = "returned"
    /\ UNCHANGED <<entry, rows, cols, image_list, installed, start_index, i,
                   pdf, temp_dir, temp_files, output, reported, error, page,
                   fit>>

\* line 279: the call of create_pdf_from_images
MainCallsCore ==
    /\ pc = "main"
    /\ ~(rows < 1 \/ cols < 1)
    /\ image_list # <<>>
    /\ pc' = "core"
    /\ UNCHANGED <<entry, rows, cols, image_list, installed, start_index, i,
                   pdf, temp_dir, temp_files, output, reported, error, page,
                   fit>>

\* --------------------------------- create_pdf_from_images (lines 168-222)
images_per_page == rows * cols

\* lines 184-185: the temporary directory is created
MkdirOk ==
    /\ pc = "core"
    /\ temp_dir' = TRUE
    /\ pc' = "loop"
    /\ UNCHANGED <<entry, rows, cols, image_list, installed, start_index, i,
                   pdf, temp_files, output, reported, error, page, fit>>

\* lines 186-188: mkdir failed; the function prints and returns
MkdirFails ==
    /\ pc = "core"
    /\ pc' = "returned"
    /\ UNCHANGED <<entry, rows, cols, image_list, installed, start_index, i,
                   pdf, temp_dir, temp_files, output, reported, error, page,
                   fit>>

\* line 191: range(0, len(image_list), 0) raises ValueError
RangeRaises ==
    /\ pc = "loop"
    /\ images_per_page = 0
    /\ pc' = "raised"
    /\ error' = "ValueError: range"
    /\ UNCHANGED <<entry, rows, cols, image_list, installed, start_index, i,
                   pdf, temp_dir, temp_files, output, reported, page, fit>>

\* (mutant) the stop value is included
InRangeInclusive(k, n, step) ==
    IF step > 0 THEN k <= n ELSE k >= n

\* line 191: whether range(0, len(image_list), step) still yields i
InRange(k, n, step) ==
    IF step > 0 THEN k < n ELSE k > n

\* line 193: image_list[i:i + images_per_page]
PageSlice(list, k, per_page) ==
    SubSeq(list, k + 1,
           IF k + per_page < Len(list) THEN k + per_page ELSE Len(list))

\* line 199: page_{i // images_per_page + 1}.png
PageFileNumber(k, per_page) == PyFloorDiv(k, per_page) + 1

\* line 196: combine_images_to_page(page_images_paths, rows, cols, start_index=i)
ComposedPage ==
    combine_images_to_page(PageSlice(image_list, i, images_per_page),
                           rows, cols, i, installed)

\* (mutant) a page that fails to compose is skipped and the run goes on
ComposeSkipsPage ==
    /\ pc = "loop"
    /\ images_per_page # 0
    /\ InRange(i, Len(image_list), images_per_page)
    /\ ComposedPage.error # "none"
    /\ i' = i + images_per_page
    /\ UNCHANGED <<entry, pc, rows, cols, image_list, installed, start_index,
                   pdf, temp_dir, temp_files, output, reported, error, page,
                   fit>>

\* line 196 raises: the exception leaves create_pdf_from_images
ComposeRaises ==
    /\ pc = "loop"
    /\ images_per_page # 0
    /\ InRange(i, Len(image_list), images_per_page)
    /\ ComposedPage.error # "none"
    /\ error' = ComposedPage.error
    /\ pc' = "raised"
    /\ UNCHANGED <<entry, rows, cols, image_list, installed, start_index, i,
                   pdf, temp_dir, temp_files, output, reported, page, fit>>

\* line 200 raises: the page image could not be written
SaveRaises ==
    /\ pc = "loop"
    /\ images_per_page # 0
    /\ InRange(i, Len(image_list), images_per_page)
    /\ ComposedPage.error = "none"
    /\ error' = "OSError: save"
    /\ pc' = "raised"
    /\ UNCHANGED <<entry, rows, cols, image_list, installed, start_index, i,
                   pdf, temp_dir, temp_files, output, reported, page, fit>>

\* lines 193-212: one page composed, saved and added to the document
AddPage ==
    /\ pc = "loop"
    /\ images_per_page # 0
    /\ InRange(i, Len(image_list), images_per_page)
    /\ ComposedPage.error = "none"
    /\ pdf' = Append(pdf, [file |-> PageFileNumber(i, images_per_page),
                           canvas |-> ComposedPage.canvas])
    /\ temp_files' = temp_files \cup {PageFileNumber(i, images_per_page)}
    /\ i' = i + images_per_page
    /\ UNCHANGED <<entry, pc, rows, cols, image_list, installed, start_index,
                   temp_dir, output, reported, error, page, fit>>

\* lines 215-216: the loop is over; the document is written and reported
OutputOk ==
    /\ pc = "loop"
    /\ images_per_page # 0
    /\ ~InRange(i, Len(image_list), images_per_page)
    /\ output' = [written |-> TRUE, pages |-> pdf]
    /\ reported' = TRUE
    /\ pc' = "cleanup"
    /\ UNCHANGED <<entry, rows, cols, image_list, installed, start_index, i,
                   pdf, temp_dir, temp_files, error, page, fit>>

\* line 215 raises: the document could not be written
OutputRaises ==
    /\ pc = "loop"
    /\ images_per_page # 0
    /\ ~InRange(i, Len(image_list), images_per_page)
    /\ error' = "OSError: output"
    /\ pc' = "raised"
    /\ UNCHANGED <<entry, rows, cols, image_list, installed, start_index, i,
                   pdf, temp_dir, temp_files, output, reported, page, fit>>

\* lines 219-222: the page files and the directory are removed
Cleanup ==
    /\ pc = "cleanup"
    /\ temp_files' = {}
    /\ temp_dir' = FALSE
    /\ pc' = "done"
    /\ UNCHANGED <<entry, rows, cols, image_list, installed, start_index, i,
                   pdf, output, reported, error, page, fit>>

Next ==
    \/ MainRejectsGrid
    \/ MainNoFiles
    \/ MainCallsCore
    \/ MkdirOk
    \/ MkdirFails
    \/ RangeRaises
    \/ ComposeRaises
    \/ SaveRaises
    \/ AddPage
    \/ OutputOk
    \/ OutputRaises
    \/ Cleanup

Spec == InitRun /\ [][Next]_vars

\* ------------------------- a direct call of combine_images_to_page (39-150)
\* Slices of length n: every fourth image (from offset s) must be shrunk, the
\* others fit their cell; image number `corrupt` (0: none) does not decode.
SampleSlice(n, s, corrupt) ==
    [j \in 1..n |->
        LET k == IF j = corrupt THEN CorruptImage
                 ELSE IF (j + s) % 4 = 0 THEN BigImage
                 ELSE SmallImage
        IN  [path |-> j, w |-> k.w, h |-> k.h, ok |-> k.ok]]

InitPage ==
    /\ entry = "page"
    /\ pc = "page"
    /\ rows \in (-NegGrid)..MaxRows
    /\ cols \in (-NegGrid)..MaxCols
    /\ \E n \in 0..MaxSlice, s \in 0..1 :
          \E corrupt \in {0, n} : image_list = SampleSlice(n, s, corrupt)
    /\ installed \in FontSets
    /\ start_index \in {0, MaxSlice}
    /\ i = 0
    /\ pdf = <<>>
    /\ temp_dir = FALSE
    /\ temp_files = {}
    /\ output = NoDocument
    /\ reported = FALSE
    /\ error = "none"
    /\ page = NoPage
    /\ fit = NoFit

DirectPage ==
    combine_images_to_page(image_list, rows, cols, start_index, installed)

\* the call returns the page image (line 150)
PageReturns ==
    /\ pc = "page"
    /\ DirectPage.error = "none"
    /\ page' = DirectPage
    /\ pc' = "composed"
    /\ UNCHANGED <<entry, rows, cols, image_list, installed, start_index, i,
                   pdf, temp_dir, temp_files, output, reported, error, fit>>

\* the call raises (lines 68, 69, 94, 97 or 109)
PageRaises ==
    /\ pc = "page"
    /\ DirectPage.error # "none"
    /\ page' = DirectPage
    /\ error' = DirectPage.error
    /\ pc' = "raised"
    /\ UNCHANGED <<entry, rows, cols, image_list, installed, start_index, i,
                   pdf, temp_dir, temp_files, output, reported, fit>>

NextPage == PageReturns \/ PageRaises

SpecPage == InitPage /\ [][NextPage]_vars

\* ------------------------------- one Image Fitter step (lines 99-109)
InitFit ==
    /\ entry = "fit"
    /\ pc = "fit"
    /\ rows = 1
    /\ cols = 1
    /\ image_list = <<>>
    /\ installed = {}
    /\ start_index = 0
    /\ i = 0
    /\ pdf = <<>>
    /\ temp_dir = FALSE
    /\ temp_files = {}
    /\ output = NoDocument
    /\ reported = FALSE
    /\ error = "none"
    /\ page = NoPage
    /\ \E w \in 1..MaxSide, h \in 1..MaxSide, mw \in 1..MaxCell,
          mh \in 1..MaxCell :
          fit = [NoFit EXCEPT !.img_width = w, !.img_height = h,
                              !.max_width = mw, !.max_height = mh]

\* lines 99-109 for an image of size img.size in a cell of the given size
FitImage ==
    /\ pc = "fit"
    /\ LET new_size == Fit(fit.img_width, fit.img_height, fit.max_width,
                           fit.max_height)
       IN  fit' = [fit EXCEPT
                      !.done = TRUE,
                      !.new_width = new_size[1],
                      !.new_height = new_size[2],
                      !.resized = NeedsResize(fit.img_width, fit.img_height,
                                              new_size[1], new_size[2])]
    /\ pc' = "fitted"
    /\ UNCHANGED <<entry, rows, cols, image_list, installed, start_index, i,
                   pdf, temp_dir, temp_files, output, reported, error, page>>

NextFit == FitImage

SpecFit == InitFit /\ [][NextFit]_vars

\* ================================================================ claims
CeilDiv(n, c) == (n + c - 1) \div c

GridValid == rows >= 1 /\ cols >= 1

LoopFinished == pc \in {"cleanup", "done"}

Terminated == pc \in {"done", "raised", "returned", "rejected"}

\* the labels stamped on the pages, in page order then in-page order
RECURSIVE Labels(_)
Labels(pages) ==
    IF pages = <<>> THEN <<>>
    ELSE [j \in 1..Len(Head(pages).canvas) |-> Head(pages).canvas[j].number]
         \o Labels(Tail(pages))

\* C1: for a non-empty list of N images and rows, cols >= 1, a run that gets
\* through its loop has added exactly ceil(N / capacity) pages, none empty:
\* all but the last are full and the last holds the remaining images (a
\* full page when N is a multiple of the capacity, the single extra image
\* when N is one more than a multiple).
C1_PageCount ==
    (LoopFinished /\ GridValid /\ image_list # <<>>) =>
        LET n == Len(image_list)
            c == images_per_page
            last == pdf[Len(pdf)].canvas
        IN  /\ Len(pdf) = CeilDiv(n, c)
            /\ \A k \in 1..Len(pdf) : Len(pdf[k].canvas) >= 1
            /\ \A k \in 1..(Len(pdf) - 1) : Len(pdf[k].canvas) = c
            /\ (n % c = 0 => Len(last) = c)
            /\ (n % c = 1 => Len(last) = 1 /\ last[1].path = n)

C1_Witness ==
    /\ pc = "done"
    /\ Len(image_list) = 5
    /\ images_per_page = 4
    /\ Len(pdf) = 2
    /\ Len(pdf[2].canvas) = 1

\* C2: at every point of a run with rows, cols >= 1, the image at 0-based
\* position j of the list carries ordinal j + 1: the labels read in page
\* order then in-page order are 1, 2, 3, ... without repeat or gap, the
\* first label of page k (0-based) is k * capacity + 1, and once the loop
\* is over they are exactly 1..N.
C2_Ordinals ==
    GridValid =>
        /\ Labels(pdf) = [j \in 1..Len(Labels(pdf)) |-> j]
        /\ \A k \in 1..Len(pdf) :
              /\ pdf[k].canvas # <<>>
              /\ pdf[k].canvas[1].number = (k - 1) * images_per_page + 1
              /\ \A j \in 1..Len(pdf[k].canvas) :
                    pdf[k].canvas[j].number = pdf[k].canvas[j].path
        /\ (LoopFinished => Len(Labels(pdf)) = Len(image_list))

C2_Witness ==
    /\ pc = "done"
    /\ Len(image_list) = 5
    /\ images_per_page = 2
    /\ Len(pdf) = 3
    /\ pdf[3].canvas[1].number = 5

\* C3: on a composed page with rows, cols >= 1, the image at local index
\* i < rows*cols lies in cell (i div cols, i mod cols), whose top-left pixel
\* is (col * cell width, row * cell height); distinct indices below the
\* capacity lie in distinct cells; with rows = 4, cols = 3 index 0 is in
\* cell (0,0), index 4 in (1,1) and index 11 in (3,2).
C3_RowMajorCells ==
    (pc = "composed" /\ GridValid) =>
        LET c == page.canvas
            inGrid == {j \in 1..Len(c) : c[j].i < rows * cols}
        IN  /\ \A j \in inGrid :
                  /\ c[j].i = j - 1
                  /\ c[j].row = c[j].i \div cols
                  /\ c[j].col = c[j].i % cols
                  /\ c[j].row < rows
                  /\ c[j].x_start = c[j].col * (page_width_px \div cols)
                  /\ c[j].y_start = c[j].row * (page_height_px \div rows)
            /\ \A j, k \in inGrid :
                  j # k => <<c[j].row, c[j].col>> # <<c[k].row, c[k].col>>
            /\ (rows = 4 /\ cols = 3) =>
                  \A j \in inGrid :
                      /\ c[j].i = 0 => (c[j].row = 0 /\ c[j].col = 0)
                      /\ c[j].i = 4 => (c[j].row = 1 /\ c[j].col = 1)
                      /\ c[j].i = 11 => (c[j].row = 3 /\ c[j].col = 2)

C3_Witness ==
    /\ pc = "composed"
    /\ rows = 4
    /\ cols = 3
    /\ Len(page.canvas) >= 12
    /\ page.canvas[12].row = 3
    /\ page.canvas[12].col = 2

\* C4: for a positive native size and a positive cell size the fitted size
\* is within the cell and within the native size on both axes, and an image
\* that already fits its cell keeps its native size and is not resized.
C4_FitWithinCellNoUpscale ==
    fit.done =>
        /\ fit.new_width <= fit.max_width
        /\ fit.new_height <= fit.max_height
        /\ fit.new_width <= fit.img_width
        /\ fit.new_height <= fit.img_height
        /\ (fit.img_width <= fit.max_width /\ fit.img_height <= fit.max_height)
              => /\ fit.new_width = fit.img_width
                 /\ fit.new_height = fit.img_height
                 /\ ~fit.resized

C4_Witness ==
    /\ fit.done
    /\ fit.img_width = 6
    /\ fit.img_height = 3
    /\ fit.max_width = 4
    /\ fit.max_height = 4
    /\ fit.new_width = 4
    /\ fit.new_height = 2
    /\ fit.resized

\* C5: when a run over a non-empty list with rows, cols >= 1 has ended, on
\* any exit path, the temp_page_images directory and its page_N.png files
\* are gone.
C5_TempRemovedOnEveryExit ==
    (Terminated /\ GridValid /\ image_list # <<>>) =>
        (~temp_dir /\ temp_files = {})

\* C6: the output document is never a partial one: it is written only by a
\* run in which no step raised, and for rows, cols >= 1 it then holds
\* ceil(N / capacity) pages; a run that raised has written no document.
C6_NoPartialDocument ==
    /\ (error # "none" => ~output.written)
    /\ (output.written /\ GridValid) =>
           Len(output.pages) = CeilDiv(Len(image_list), images_per_page)

C6_Witness ==
    /\ pc = "raised"
    /\ error = "UnidentifiedImageError"
    /\ Len(pdf) >= 1
    /\ Len(pdf) < CeilDiv(Len(image_list), images_per_page)
    /\ ~output.written

\* C7: with rows < 1 or cols < 1 and a non-empty list, no page is ever
\* composed and no output document is written or reported as produced.
C7_BadGridIsFatal ==
    ((rows < 1 \/ cols < 1) /\ image_list # <<>>) =>
        (pdf = <<>> /\ ~output.written /\ ~reported /\ pc # "done")

\* C8: the canvas of a composed page measures
\* floor((page size - 2 * margin) * density) pixels on each axis, floored
\* once after the multiplication, and the cells are that size
\* integer-divided by (cols, rows).
C8_SingleFloorCanvas ==
    pc = "composed" =>
        LET w == ((A4_WIDTH_PT - 2 * MARGIN_PT * 100) * DPI)
                     \div (PT_PER_INCH * 100)
            h == ((A4_HEIGHT_PT - 2 * MARGIN_PT * 100) * DPI)
                     \div (PT_PER_INCH * 100)
        IN  /\ page.width = w
            /\ page.height = h
            /\ GridValid =>
                  \A j \in 1..Len(page.canvas) :
                      /\ page.canvas[j].x_start
                            = page.canvas[j].col * (w \div cols)
                      /\ page.canvas[j].y_start
                            = page.canvas[j].row * (h \div rows)

\* C9: for a positive native size and a positive cell size the fitted
\* width and height are both at least 1.
C9_PositiveTarget ==
    fit.done => (fit.new_width >= 1 /\ fit.new_height >= 1)

\* C10: a page composed from a slice longer than rows*cols equals the page
\* composed from the first rows*cols images of the slice alone: the extra
\* images paste nothing and stamp no label.
C10_ExtraImagesIgnored ==
    (pc = "composed" /\ GridValid) =>
        LET c == rows * cols
            kept == SubSeq(image_list, 1,
                           IF Len(image_list) < c THEN Len(image_list) ELSE c)
        IN  page.canvas =
                combine_images_to_page(kept, rows, cols, start_index,
                                       installed).canvas

====
